---- MODULE Spec2Model ----
(***************************************************************************)
(* Model of the percentile / college-recommendation core of the JEE Main   *)
(* dashboard: utils.calculate_percentile and utils.suggest_colleges, as    *)
(* called by app.py on the two tables load_data() reads at start-up.       *)
(*                                                                         *)
(* Numbers.  Marks and cutoff percentiles are only ever compared, so they  *)
(* are integers here.  The percentile computed by calculate_percentile is  *)
(* a fraction: it is kept exact as [num, den] until round(.., 2), whose    *)
(* result is held in hundredths (99.99 is 9999).  For the table sizes of   *)
(* the model the float computation and the exact one round to the same     *)
(* hundredth, and no value lies half way between two hundredths.           *)
(*                                                                         *)
(* Sorting.  sort_values is called with its default kind='quicksort',      *)
(* which fixes no order among rows of equal key; quicksort_ties is the     *)
(* order the numpy in use gives them, any one, the same at every call.     *)
(***************************************************************************)
EXTENDS Integers, Sequences, FiniteSets, TLC

VARIABLES jee_data, college_data, quicksort_ties, call, ret

vars == <<jee_data, college_data, quicksort_ties, call, ret>>

-----------------------------------------------------------------------------
(* Bounds of the model *)

\* most rows of the historical score table
MaxRows == 4
\* most rows of the college table
MaxColleges == 3
\* distance between two modelled marks values
MarkStep == 50

(* Program constants *)

\* app.py: st.number_input(..., max_value=300)
MAX_MARKS == 300
\* utils.py: min(99.99, ...), in hundredths
CAP == 9999

-----------------------------------------------------------------------------
(* Python values *)

None == [type |-> "NoneType"]

PyFloat(h) == [type |-> "float", hundredths |-> h]

\* a pandas DataFrame: column labels, row labels, and one record per row
DataFrame(columns, index, data) ==
    [type |-> "DataFrame", columns |-> columns, index |-> index, data |-> data]

\* pd.DataFrame(): no columns, no rows
EmptyDataFrame == DataFrame(<<>>, <<>>, <<>>)

Range(s) == {s[i] : i \in DOMAIN s}

\* every path of both functions ends in a return statement
Return(v) == [outcome |-> "return", value |-> v]

-----------------------------------------------------------------------------
(* utils.calculate_percentile *)

\* a slip: records with marks equal to the score counted too
StudentsBelow_le(historical_marks, marks) ==
    Cardinality({i \in DOMAIN historical_marks : historical_marks[i] <= marks})

\* a slip: the records above the score counted
StudentsBelow_gt(historical_marks, marks) ==
    Cardinality({i \in DOMAIN historical_marks : historical_marks[i] > marks})

\* np.sum(historical_marks < marks)
RECURSIVE StudentsBelow(_, _)
StudentsBelow(historical_marks, marks) ==
    IF historical_marks = <<>> THEN 0
    ELSE (IF Head(historical_marks) < marks THEN 1 ELSE 0)
         + StudentsBelow(Tail(historical_marks), marks)

\* (students_below / total_students) * 100, exact
RawPercentile(students_below, total_students) ==
    [num |-> students_below * 100, den |-> total_students]

\* a slip: the cap left out, max(0, percentile) alone
Clamp_nocap(percentile) ==
    IF percentile.num > 0 THEN percentile ELSE [num |-> 0, den |-> 1]

\* a slip: capped at 100 instead of 99.99
Clamp_cap100(percentile) ==
    LET lo == IF percentile.num > 0 THEN percentile ELSE [num |-> 0, den |-> 1]
    IN  IF lo.num < 100 * lo.den THEN lo ELSE [num |-> 100, den |-> 1]

\* min(99.99, max(0, percentile)): max keeps 0 unless percentile > 0,
\* min keeps 99.99 unless the value is < 99.99
Clamp(percentile) ==
    LET lo == IF percentile.num > 0 THEN percentile ELSE [num |-> 0, den |-> 1]
    IN  IF lo.num * 100 < CAP * lo.den THEN lo ELSE [num |-> CAP, den |-> 100]

\* round(percentile, 2), in hundredths; a tie goes to the even neighbour
Round2(percentile) ==
    LET n == percentile.num * 100
        q == n \div percentile.den
        r == n % percentile.den
    IN  IF 2 * r < percentile.den THEN q
        ELSE IF 2 * r > percentile.den THEN q + 1
        ELSE IF q % 2 = 0 THEN q ELSE q + 1

\* historical_data['marks'].values; KeyError when the column is missing
HasColumn(frame, col) == col \in Range(frame.columns)

ColumnValues(frame, col) == [i \in DOMAIN frame.data |-> frame.data[i][col]]

\* The value returned, and the historical_data argument as the call leaves
\* it.  Every exception (the KeyError of a missing 'marks' column) is
\* caught and turned into None.
calculate_percentile(marks, historical_data) ==
    IF ~HasColumn(historical_data, "marks")
    THEN [value |-> None, historical_data |-> historical_data]
    ELSE
      LET historical_marks == ColumnValues(historical_data, "marks")
          students_below == StudentsBelow(historical_marks, marks)
          total_students == Len(historical_marks)
      IN  IF total_students > 0
          THEN [value |-> PyFloat(Round2(Clamp(
                              RawPercentile(students_below, total_students)))),
                historical_data |-> historical_data]
          ELSE [value |-> None, historical_data |-> historical_data]

-----------------------------------------------------------------------------
(* utils.suggest_colleges *)

\* the upper-case letters and their lower-case forms
ToLower ==
    [A |-> "a", B |-> "b", C |-> "c", D |-> "d", E |-> "e", F |-> "f",
     G |-> "g", H |-> "h", I |-> "i", J |-> "j", K |-> "k", L |-> "l",
     M |-> "m", N |-> "n", O |-> "o", P |-> "p", Q |-> "q", R |-> "r",
     S |-> "s", T |-> "t", U |-> "u", V |-> "v", W |-> "w", X |-> "x",
     Y |-> "y", Z |-> "z"]

LowerChar(c) == IF c \in DOMAIN ToLower THEN ToLower[c] ELSE c

\* a slip: the category used as typed
lower_missing(category) == category

\* str.lower(), on a string held as its sequence of characters
lower(category) == [i \in DOMAIN category |-> LowerChar(category[i])]

RECURSIVE Join(_)
Join(chars) == IF chars = <<>> THEN "" ELSE Head(chars) \o Join(Tail(chars))

\* f'cutoff_{category}'
CutoffCol(category) == "cutoff_" \o Join(category)

RECURSIVE TruePositions(_, _)
TruePositions(mask, n) ==
    IF n = 0 THEN <<>>
    ELSE IF mask[n] THEN Append(TruePositions(mask, n - 1), n)
                    ELSE TruePositions(mask, n - 1)

\* the rows of frame at the given positions, in that order, as a new frame
Take(frame, positions) ==
    DataFrame(frame.columns,
              [k \in DOMAIN positions |-> frame.index[positions[k]]],
              [k \in DOMAIN positions |-> frame.data[positions[k]]])

\* a slip: a cutoff equal to the percentile left out
EligibleMask_lt(colleges, cutoff_col, percentile) ==
    [i \in DOMAIN colleges.data |-> colleges.data[i][cutoff_col] < percentile]

\* colleges[cutoff_col] <= percentile
EligibleMask(colleges, cutoff_col, percentile) ==
    [i \in DOMAIN colleges.data |-> colleges.data[i][cutoff_col] <= percentile]

\* position i is placed before position j by the descending sort.  The
\* default kind='quicksort' promises no order among equal keys: the order the
\* build's argsort gives them is quicksort_ties.
SortsBefore(keys, i, j) ==
    \/ keys[i] > keys[j]
    \/ keys[i] = keys[j] /\ quicksort_ties[i] < quicksort_ties[j]

RECURSIVE ArgsortDescending(_, _)
ArgsortDescending(keys, remaining) ==
    IF remaining = {} THEN <<>>
    ELSE LET first == CHOOSE i \in remaining :
                          \A j \in remaining \ {i} : SortsBefore(keys, i, j)
         IN  <<first>> \o ArgsortDescending(keys, remaining \ {first})

\* frame.sort_values(by=by, ascending=False): a new frame
sort_values(frame, by) ==
    Take(frame, ArgsortDescending(ColumnValues(frame, by), DOMAIN frame.data))

\* frame[cols]
Project(frame, cols) ==
    DataFrame(cols, frame.index,
              [i \in DOMAIN frame.data |->
                  [c \in Range(cols) |-> frame.data[i][c]]])

\* a slip: the college table itself sorted, in place, before the selection
suggest_colleges_inplace(percentile, category, colleges) ==
    LET cutoff_col == CutoffCol(lower(category))
        cols == <<"college_name", "branch", cutoff_col, "city">>
    IN  IF ~HasColumn(colleges, cutoff_col)
        THEN [value |-> EmptyDataFrame, college_data |-> colleges]
        ELSE
          LET sorted == sort_values(colleges, cutoff_col)
              eligible_colleges ==
                  Take(sorted, TruePositions(
                      EligibleMask(sorted, cutoff_col, percentile),
                      Len(sorted.data)))
          IN  [value |-> Project(eligible_colleges, cols),
               college_data |-> sorted]

\* The value returned, and the college_data argument (colleges) as the call leaves it.
\* The boolean-mask selection followed by .copy() and the sort_values
\* without inplace each build a new frame.  A KeyError (no such cutoff
\* column, or a display column missing) is caught and turned into
\* pd.DataFrame().
suggest_colleges(percentile, category, colleges) ==
    LET cutoff_col == CutoffCol(lower(category))
        cols == <<"college_name", "branch", cutoff_col, "city">>
    IN  IF ~HasColumn(colleges, cutoff_col)
        THEN [value |-> EmptyDataFrame, college_data |-> colleges]
        ELSE
          LET eligible_colleges ==
                  Take(colleges, TruePositions(
                      EligibleMask(colleges, cutoff_col, percentile),
                      Len(colleges.data)))
              sorted == sort_values(eligible_colleges, cutoff_col)
          IN  IF \A c \in Range(cols) : HasColumn(sorted, c)
              THEN [value |-> Project(sorted, cols),
                    college_data |-> colleges]
              ELSE [value |-> EmptyDataFrame, college_data |-> colleges]

-----------------------------------------------------------------------------
(* The two tables, as load_data() leaves them *)

\* the marks a record or an input can hold
Marks == {m \in 0..MAX_MARKS : m % MarkStep = 0}

\* the scores passed to calculate_percentile
ScoreInputs == Marks

SeqsUpTo(S, n) == UNION {[1..k -> S] : k \in 0..n}

\* pd.read_csv numbers the rows 0, 1, ...; of the columns of jee_data.csv
\* only 'marks' is read by calculate_percentile
JeeFrame(marks) ==
    DataFrame(<<"marks">>,
              [i \in DOMAIN marks |-> i - 1],
              [i \in DOMAIN marks |-> [marks |-> marks[i]]])

JeeFrames == {JeeFrame(m) : m \in SeqsUpTo(Marks, MaxRows)}

CollegeColumns ==
    <<"college_name", "branch", "city",
      "cutoff_general", "cutoff_obc", "cutoff_sc", "cutoff_st">>

CollegeNames == <<"A", "B", "C", "D", "E", "F">>

\* cutoff percentiles of a row and percentiles asked for
CutoffValues == {80, 95}

PercentileInputs == {60, 80, 95}

\* the four cutoffs of a row: general, obc, sc, st
CutoffVectors ==
    {v \in [1..4 -> CutoffValues] : \A k \in 1..3 : v[k] >= v[k + 1]}

CollegeRow(i, v) ==
    [college_name |-> CollegeNames[i], branch |-> "CSE", city |-> "Delhi",
     cutoff_general |-> v[1], cutoff_obc |-> v[2],
     cutoff_sc |-> v[3], cutoff_st |-> v[4]]

CollegeFrame(vs) ==
    DataFrame(CollegeColumns,
              [i \in DOMAIN vs |-> i - 1],
              [i \in DOMAIN vs |-> CollegeRow(i, vs[i])])

CollegeFrames == {CollegeFrame(vs) : vs \in SeqsUpTo(CutoffVectors, MaxColleges)}

\* the category strings passed to suggest_colleges: the four of the
\* selectbox of app.py, other spellings of them, and one unknown
CategoryInputs ==
    { <<"G","e","n","e","r","a","l">>, <<"O","B","C">>, <<"S","C">>, <<"S","T">>,
      <<"g","e","n","e","r","a","l">>, <<"G","E","N","E","R","A","L">>,
      <<"o","b","c">>, <<"e","w","s">> }

SampleJee == JeeFrame(<<100, 150, 200, 250>>)

SampleColleges == CollegeFrame(<<<<95, 95, 80, 80>>, <<80, 80, 80, 80>>>>)

StableTies == [i \in 1..MaxColleges |-> i]

-----------------------------------------------------------------------------
(* The state machine: the tables are loaded once; a run of the script      *)
(* calls one of the two functions and holds what it returned, until the    *)
(* next run starts.                                                        *)

NoCall == [fn |-> "none"]

NoReturn == [outcome |-> "none"]

\* any score table, beside a sample college table
InitScores ==
    /\ jee_data \in JeeFrames
    /\ college_data = SampleColleges
    /\ quicksort_ties = StableTies

\* any college table and any order of sorting equal keys, beside a sample
\* score table
InitColleges ==
    /\ jee_data = SampleJee
    /\ college_data \in CollegeFrames
    /\ quicksort_ties \in Permutations(1..MaxColleges)

\* load_data() caught an exception: two empty frames
InitLoadFailed ==
    /\ jee_data = EmptyDataFrame
    /\ college_data = EmptyDataFrame
    /\ quicksort_ties = StableTies

StartOfRun ==
    /\ call = NoCall
    /\ ret = NoReturn

Init == (InitScores \/ InitColleges \/ InitLoadFailed) /\ StartOfRun

Call_calculate_percentile ==
    /\ call = NoCall
    /\ \E marks \in ScoreInputs :
        \E r \in {calculate_percentile(marks, jee_data)} :
            /\ call' = [fn |-> "calculate_percentile", marks |-> marks]
            /\ ret' = Return(r.value)
            /\ jee_data' = r.historical_data
            /\ UNCHANGED <<college_data, quicksort_ties>>

Call_suggest_colleges ==
    /\ call = NoCall
    /\ \E percentile \in PercentileInputs, category \in CategoryInputs :
        \E r \in {suggest_colleges(percentile, category, college_data)} :
            /\ call' = [fn |-> "suggest_colleges", percentile |-> percentile,
                        category |-> category]
            /\ ret' = Return(r.value)
            /\ college_data' = r.college_data
            /\ UNCHANGED <<jee_data, quicksort_ties>>

\* the script runs again from the top: what the last run computed is gone,
\* the cached tables are the ones the next run gets
Rerun ==
    /\ call # NoCall
    /\ call' = NoCall
    /\ ret' = NoReturn
    /\ UNCHANGED <<jee_data, college_data, quicksort_ties>>

Next == Call_calculate_percentile \/ Call_suggest_colleges \/ Rerun

Spec == Init /\ [][Next]_vars

\* calculate_percentile alone, on any score table
InitPercentile == (InitScores \/ InitLoadFailed) /\ StartOfRun

NextPercentile == Call_calculate_percentile \/ Rerun

SpecPercentile == InitPercentile /\ [][NextPercentile]_vars

\* suggest_colleges alone, on any college table
InitSuggest == (InitColleges \/ InitLoadFailed) /\ StartOfRun

NextSuggest == Call_suggest_colleges \/ Rerun

SpecSuggest == InitSuggest /\ [][NextSuggest]_vars

-----------------------------------------------------------------------------
(* Properties of calculate_percentile *)

PercentileCalled == call.fn = "calculate_percentile"

\* the score table has a marks column and at least one record
NonEmptyHistory == "marks" \in Range(jee_data.columns) /\ jee_data.data # <<>>

RecordMarks == [i \in DOMAIN jee_data.data |-> jee_data.data[i].marks]

NBelow(s) == Cardinality({i \in DOMAIN RecordMarks : RecordMarks[i] < s})

Abs(x) == IF x < 0 THEN -x ELSE x

\* C1: on a non-empty score table of N records, calculate_percentile(s, H)
\* is (n_below / N) * 100 clamped to [0, 99.99] and rounded to 2 decimals,
\* n_below counting the records whose marks are strictly less than s: the
\* result is 99.99 when n_below / N * 100 >= 99.99 and otherwise a hundredth
\* nearest to n_below / N * 100.
C1_PercentileFormula ==
    (PercentileCalled /\ NonEmptyHistory) =>
        /\ ret.outcome = "return"
        /\ ret.value.type = "float"
        /\ LET N == Len(RecordMarks)
               n_below == NBelow(call.marks)
               h == ret.value.hundredths
           IN  IF n_below * 100 * 100 >= CAP * N
               THEN h = CAP
               ELSE 2 * Abs(h * N - n_below * 100 * 100) <= N

\* the scenario H = [100, 150, 200, 250], s = 150: 25.00
C1_Witness ==
    /\ PercentileCalled
    /\ RecordMarks = <<100, 150, 200, 250>>
    /\ call.marks = 150
    /\ ret = Return(PyFloat(2500))

\* C2: a score strictly above the marks of every record of a non-empty
\* score table gets exactly 99.99.
C2_AboveAllIsCapped ==
    (PercentileCalled /\ NonEmptyHistory
        /\ \A i \in DOMAIN RecordMarks : RecordMarks[i] < call.marks) =>
        ret = Return(PyFloat(CAP))

\* the scenario H = [100, 150, 200, 250], s = 300: 99.99
C2_Witness ==
    /\ PercentileCalled
    /\ RecordMarks = <<100, 150, 200, 250>>
    /\ call.marks = 300
    /\ ret = Return(PyFloat(CAP))

\* C3: on a non-empty score table the value returned is a number in
\* [0, 99.99].
C3_PercentileInRange ==
    (PercentileCalled /\ NonEmptyHistory) =>
        /\ ret.outcome = "return"
        /\ ret.value.type = "float"
        /\ 0 <= ret.value.hundredths
        /\ ret.value.hundredths <= CAP

\* both ends of the interval and a value inside it are returned
C3_Witness ==
    /\ PercentileCalled
    /\ NonEmptyHistory
    /\ ret.value.type = "float"
    /\ ret.value.hundredths \in 1..(CAP - 1)
    /\ \E s \in ScoreInputs : calculate_percentile(s, jee_data).value = PyFloat(CAP)
    /\ \E s \in ScoreInputs : calculate_percentile(s, jee_data).value = PyFloat(0)

\* C4: on a non-empty score table, a higher score never gets a lower
\* percentile than the one just returned, and a lower score never a higher
\* one.
C4_Monotone ==
    (PercentileCalled /\ NonEmptyHistory) =>
        \A s2 \in ScoreInputs :
            LET p2 == calculate_percentile(s2, jee_data).value
            IN  /\ p2.type = "float"
                /\ ret.value.type = "float"
                /\ call.marks < s2 => ret.value.hundredths <= p2.hundredths
                /\ s2 < call.marks => p2.hundredths <= ret.value.hundredths

\* a call with a higher score that gets a strictly higher percentile, and
\* another higher score that gets the same
C4_Witness ==
    /\ PercentileCalled
    /\ NonEmptyHistory
    /\ \E s2 \in ScoreInputs :
          /\ call.marks < s2
          /\ ret.value.hundredths < calculate_percentile(s2, jee_data).value.hundredths
    /\ \E s2 \in ScoreInputs :
          /\ call.marks < s2
          /\ ret.value.hundredths = calculate_percentile(s2, jee_data).value.hundredths

\* C8: calculate_percentile on an empty score table (no record, or no
\* marks column) fails with EmptyDatasetError.
C8_EmptyDatasetRaises ==
    (PercentileCalled /\ ~NonEmptyHistory) =>
        ret = [outcome |-> "raise", error |-> "EmptyDatasetError"]

-----------------------------------------------------------------------------
(* Properties of suggest_colleges *)

SuggestCalled == call.fn = "suggest_colleges"

\* two strings that differ at most in the case of their letters
SameIgnoringCase(a, b) ==
    /\ Len(a) = Len(b)
    /\ \A i \in DOMAIN a :
          \/ a[i] = b[i]
          \/ a[i] \in DOMAIN ToLower /\ ToLower[a[i]] = b[i]
          \/ b[i] \in DOMAIN ToLower /\ ToLower[b[i]] = a[i]

General == <<"g","e","n","e","r","a","l">>

Obc == <<"o","b","c">>

Sc == <<"s","c">>

St == <<"s","t">>

Recognized(category) ==
    \E k \in {General, Obc, Sc, St} : SameIgnoringCase(category, k)

\* the cutoff column a recognized category stands for
ColumnOf(category) ==
    IF SameIgnoringCase(category, General) THEN "cutoff_general"
    ELSE IF SameIgnoringCase(category, Obc) THEN "cutoff_obc"
    ELSE IF SameIgnoringCase(category, Sc) THEN "cutoff_sc"
    ELSE "cutoff_st"

\* the positions of the returned rows that carry row label l
ReturnedAt(l) == {k \in DOMAIN ret.value.index : ret.value.index[k] = l}

\* C5: for a recognized category, suggest_colleges returns exactly the
\* college records whose cutoff for that category is <= the percentile:
\* every returned row is such a record (its name, branch, cutoff and city),
\* and every such record, a cutoff equal to the percentile included, is
\* returned exactly once.
C5_ExactlyTheEligible ==
    (SuggestCalled /\ Recognized(call.category)) =>
        LET col == ColumnOf(call.category)
        IN  /\ ret.outcome = "return"
            /\ ret.value.type = "DataFrame"
            /\ \A k \in DOMAIN ret.value.index :
                  \E i \in DOMAIN college_data.index :
                      /\ college_data.index[i] = ret.value.index[k]
                      /\ college_data.data[i][col] <= call.percentile
                      /\ ret.value.data[k] =
                            [c \in {"college_name", "branch", col, "city"} |->
                                college_data.data[i][c]]
            /\ \A i \in DOMAIN college_data.index :
                  college_data.data[i][col] <= call.percentile =>
                      Cardinality(ReturnedAt(college_data.index[i])) = 1

\* a call that returns a record whose cutoff equals the percentile and
\* leaves out a record whose cutoff is above it
C5_Witness ==
    /\ SuggestCalled
    /\ Recognized(call.category)
    /\ \E i \in DOMAIN college_data.index :
          /\ college_data.data[i][ColumnOf(call.category)] = call.percentile
          /\ ReturnedAt(college_data.index[i]) # {}
    /\ \E i \in DOMAIN college_data.index :
          /\ college_data.data[i][ColumnOf(call.category)] > call.percentile
          /\ ReturnedAt(college_data.index[i]) = {}

\* C6: the rows returned are in descending order of the category's cutoff,
\* and rows of equal cutoff are in the order of the college table.
C6_DescendingAndStable ==
    (SuggestCalled /\ Recognized(call.category)) =>
        \A k, l \in DOMAIN ret.value.index :
            k < l =>
                LET ck == ret.value.data[k][ColumnOf(call.category)]
                    cl == ret.value.data[l][ColumnOf(call.category)]
                IN  /\ ck >= cl
                    /\ ck = cl => ret.value.index[k] < ret.value.index[l]

\* C7: suggest_colleges with a category that is none of general, obc, sc,
\* st fails with UnknownCategoryError.
C7_UnknownCategoryRaises ==
    (SuggestCalled /\ ~Recognized(call.category)) =>
        ret = [outcome |-> "raise", error |-> "UnknownCategoryError"]

\* C10: two category strings that differ only in letter case give the same
\* result: the same rows, in the same order, with the same columns.
C10_CaseInsensitive ==
    SuggestCalled =>
        \A other \in CategoryInputs :
            SameIgnoringCase(other, call.category) =>
                suggest_colleges(call.percentile, other, college_data).value
                    = ret.value

\* a call with "General" that returns rows, "GENERAL" and "general" being
\* among the other strings
C10_Witness ==
    /\ SuggestCalled
    /\ call.category = <<"G","e","n","e","r","a","l">>
    /\ ret.value.type = "DataFrame"
    /\ ret.value.index # <<>>
    /\ "cutoff_general" \in Range(ret.value.columns)
    /\ {<<"G","E","N","E","R","A","L">>, General} \subseteq CategoryInputs

-----------------------------------------------------------------------------
(* Both functions *)

\* C9: no call of calculate_percentile or suggest_colleges, whatever it
\* returns, changes the score table or the college table it is given:
\* content and row order stay as loaded.
C9_TablesUnchanged ==
    [][jee_data' = jee_data /\ college_data' = college_data]_vars

\* suggest_colleges has returned rows in another order than the table's,
\* and the table is still in the order it was loaded in
C9_Witness ==
    /\ SuggestCalled
    /\ ret.value.type = "DataFrame"
    /\ Len(ret.value.index) >= 2
    /\ ret.value.index[1] > ret.value.index[2]
    /\ college_data \in CollegeFrames

-----------------------------------------------------------------------------
(* web_scraper.get_jee_resources *)

\* most characters of the text extracted from a page
MaxTextLen == 2

\* len(resource_urls)
NUM_URLS == 3

\* the characters of a page: a word character, a blank, a special character
PageChars == {"a", " ", "#"}

\* \s
IsSpace(c) == c \in {" "}

\* [\w\s.,!?-]
IsKept(c) ==
    \/ c \in DOMAIN ToLower
    \/ \E k \in DOMAIN ToLower : ToLower[k] = c
    \/ c \in {"0", "1", "2", "3", "4", "5", "6", "7", "8", "9", "_"}
    \/ IsSpace(c)
    \/ c \in {".", ",", "!", "?", "-"}

\* re.sub(r'\s+', ' ', text)
RECURSIVE CollapseSpaces(_)
CollapseSpaces(text) ==
    IF Len(text) <= 1 THEN
        IF text # <<>> /\ IsSpace(text[1]) THEN <<" ">> ELSE text
    ELSE IF IsSpace(text[1]) /\ IsSpace(text[2])
         THEN CollapseSpaces(Tail(text))
         ELSE <<(IF IsSpace(text[1]) THEN " " ELSE text[1])>>
                  \o CollapseSpaces(Tail(text))

\* str.strip()
RECURSIVE Strip(_)
Strip(text) ==
    IF text = <<>> THEN text
    ELSE IF IsSpace(Head(text)) THEN Strip(Tail(text))
    ELSE IF IsSpace(text[Len(text)]) THEN Strip(SubSeq(text, 1, Len(text) - 1))
    ELSE text

\* re.sub(r'[^\w\s.,!?-]', '', text)
DropSpecial(text) == SelectSeq(text, IsKept)

\* no text (None)
NoText == <<"None">>

\* clean_text: "" for no text or an empty one
clean_text(text) ==
    IF text = NoText \/ text = <<>> THEN ""
    ELSE Join(DropSpecial(Strip(CollapseSpaces(text))))

\* what the web does for one URL: fetch_url returns nothing, a call of
\* trafilatura raises, or a page is downloaded, from which extract gets a
\* text or none and extract_metadata a title or no metadata
Texts == SeqsUpTo(PageChars, MaxTextLen) \cup {NoText}

Metadata == {NoText, <<"J", "E", "E">>}

WebOutcomes ==
    {[fetch |-> "nothing"], [fetch |-> "raises"]}
    \cup {[fetch |-> "page", content |-> t, metadata |-> m] :
             t \in Texts, m \in Metadata}

DefaultTitle ==
    <<"E","d","u","c","a","t","i","o","n","a","l"," ",
      "R","e","s","o","u","r","c","e">>

\* scrape_educational_content(url), the web doing `web` for the URL
scrape_educational_content(web) ==
    IF web.fetch = "raises"
    THEN [title |-> "Error", content |-> "Failed to scrape content: " \o "error"]
    ELSE IF web.fetch = "nothing"
    THEN [title |-> "", content |-> "Failed to fetch content"]
    ELSE [title |-> clean_text(IF web.metadata # NoText THEN web.metadata
                               ELSE DefaultTitle),
          content |-> clean_text(web.content)]

\* for url in resource_urls: append the scraped dict if content["content"]
\* is a non-empty string
RECURSIVE get_jee_resources(_)
get_jee_resources(webs) ==
    IF webs = <<>> THEN <<>>
    ELSE LET content == scrape_educational_content(Head(webs))
         IN  (IF content.content # "" THEN <<content>> ELSE <<>>)
                 \o get_jee_resources(Tail(webs))

\* st.session_state.resources = get_jee_resources(), the web doing webs[i]
\* for resource_urls[i]
Call_get_jee_resources ==
    /\ call = NoCall
    /\ \E webs \in [1..NUM_URLS -> WebOutcomes] :
          /\ call' = [fn |-> "get_jee_resources", webs |-> webs]
          /\ ret' = Return(get_jee_resources(webs))
          /\ UNCHANGED <<jee_data, college_data, quicksort_ties>>

InitResources ==
    /\ jee_data = SampleJee
    /\ college_data = SampleColleges
    /\ quicksort_ties = StableTies
    /\ StartOfRun

NextResources == Call_get_jee_resources \/ Rerun

SpecResources == InitResources /\ [][NextResources]_vars

-----------------------------------------------------------------------------
(* Properties of get_jee_resources *)

ResourcesCalled == call.fn = "get_jee_resources"

\* the URL was scraped: a page came back and nothing raised
Scraped(web) == web.fetch = "page"

RECURSIVE IsSubsequence(_, _)
IsSubsequence(a, b) ==
    IF a = <<>> THEN TRUE
    ELSE IF b = <<>> THEN FALSE
    ELSE IF Head(a) = Head(b) THEN IsSubsequence(Tail(a), Tail(b))
    ELSE IsSubsequence(a, Tail(b))

\* what the scraped URLs gave, in the order of resource_urls
ScrapedResources ==
    LET scraped == SelectSeq(call.webs, Scraped)
    IN  [i \in DOMAIN scraped |-> scrape_educational_content(scraped[i])]

\* C11: the list returned holds entries of scraped URLs only, in the order
\* of the URL list: a URL whose fetch returned nothing, or whose scraping
\* raised, has no entry.
C11_OnlyScrapedResources ==
    ResourcesCalled =>
        IsSubsequence(ret.value, ScrapedResources)

====
